---- MODULE Spec2Model ----
(***************************************************************************)
(* A model of cudf::fixed_point (cpp/include/cudf/fixed_point/             *)
(* fixed_point.hpp): the shift primitives, the constructors, the           *)
(* conversion operator, the binary operators, pre-increment and the four   *)
(* overflow predicates.                                                    *)
(*                                                                         *)
(* Widths.  The header computes every shift in double: std::pow returns    *)
(* double, so val / std::pow(..) and val * std::pow(..) are double         *)
(* operations whose result is cast back.  What that does depends on the    *)
(* order  width(int32_t) < digits(double) < width(int64_t)  (32 < 53 < 64).*)
(* The model keeps that order at a size TLC's integers can hold:           *)
(* Int32Bits < DoubleDigits < Int64Bits.  Every operator below is written  *)
(* for an arbitrary width, so the arithmetic is the code's arithmetic at   *)
(* the narrower widths.                                                    *)
(***************************************************************************)
EXTENDS Integers, Sequences, FiniteSets, TLC

\* Width in bits of the model's int32_t (and of int, the type of the literal 1).
Int32Bits == 6
\* Number of significand digits (bits) of the model's double.
DoubleDigits == 9
\* Width in bits of the model's int64_t.
Int64Bits == 12
\* Operand scales range over -MaxScale .. MaxScale.
MaxScale == 2

\* enum class Radix
BASE_2 == 2
BASE_10 == 10

Radixes == {BASE_2, BASE_10}
Reps == {"int32_t", "int64_t"}
Builds == {"release", "debug"}
\* scale_type wraps an int32_t; the scales of the model stay far from its
\* limits, so -scale, a_s + b_s and a_s - b_s never overflow it.
Scales == (-MaxScale) .. MaxScale

RECURSIVE Pow(_, _)
Pow(b, e) == IF e <= 0 THEN 1 ELSE b * Pow(b, e - 1)

Abs(x) == IF x < 0 THEN -x ELSE x
Sgn(x) == IF x < 0 THEN -1 ELSE IF x > 0 THEN 1 ELSE 0

\* C++ integer division and remainder: the quotient truncates toward zero.
TruncDiv(a, b) == Sgn(a) * Sgn(b) * (Abs(a) \div Abs(b))
TruncRem(a, b) == a - b * TruncDiv(a, b)

\* sizeof(T) * CHAR_BIT of the integer types the header instantiates.
Bits(type) == IF type = "int64_t" THEN Int64Bits ELSE Int32Bits
\* std::numeric_limits<Rep>::min() and ::max()
Min(type) == -Pow(2, Bits(type) - 1)
Max(type) == Pow(2, Bits(type) - 1) - 1
InRep(type, x) == Min(type) <= x /\ x <= Max(type)
\* The two's-complement value of x at the width of `type`.
Wrap(type, x) == ((x - Min(type)) % Pow(2, Bits(type))) + Min(type)

(***************************************************************************)
(* double.  A double is [m, e], standing for m * 2^e, with |m| <           *)
(* 2^DoubleDigits, normalised so that m is odd (or m = 0 and e = 0); the   *)
(* exponent range is never reached by the values of the model.  Every      *)
(* operation rounds its exact result to nearest, ties to even.             *)
(***************************************************************************)
RECURSIVE BitLength(_)
BitLength(a) == IF a = 0 THEN 0 ELSE 1 + BitLength(a \div 2)

\* n / d (n >= 0, d > 0) rounded to the nearest integer, ties to even.
RoundHalfEven(n, d) ==
    LET q == n \div d
        r == n % d
    IN  IF 2 * r < d THEN q
        ELSE IF 2 * r > d THEN q + 1
        ELSE IF q % 2 = 0 THEN q ELSE q + 1

RECURSIVE Normalise(_, _)
Normalise(m, e) ==
    IF m = 0 THEN [m |-> 0, e |-> 0]
    ELSE IF m % 2 = 0 THEN Normalise(m \div 2, e + 1)
    ELSE [m |-> m, e |-> e]

\* static_cast<double>(x) of an integer x.
ToDouble(x) ==
    LET a == Abs(x)
        k == BitLength(a) - DoubleDigits
    IN  IF k <= 0 THEN Normalise(x, 0)
        ELSE Normalise(Sgn(x) * RoundHalfEven(a, Pow(2, k)), k)

\* The exponent e with 2^(DoubleDigits-1) <= (a / d) / 2^e < 2^DoubleDigits.
RECURSIVE QuotientExp(_, _, _)
QuotientExp(a, d, e) ==
    LET num == IF e < 0 THEN a * Pow(2, -e) ELSE a
        den == IF e < 0 THEN d ELSE d * Pow(2, e)
    IN  IF num < den * Pow(2, DoubleDigits - 1) THEN QuotientExp(a, d, e - 1)
        ELSE IF num >= den * Pow(2, DoubleDigits) THEN QuotientExp(a, d, e + 1)
        ELSE e

\* x / y in double, both operands integer-valued doubles, y > 0.
DoubleDiv(x, y) ==
    LET n == x.m * Pow(2, x.e)
        d == y.m * Pow(2, y.e)
        a == Abs(n)
        e == QuotientExp(a, d, 0)
        num == IF e < 0 THEN a * Pow(2, -e) ELSE a
        den == IF e < 0 THEN d ELSE d * Pow(2, e)
    IN  IF n = 0 THEN Normalise(0, 0)
        ELSE Normalise(Sgn(n) * RoundHalfEven(num, den), e)

\* x * y in double, both operands integer-valued doubles.
DoubleMul(x, y) == ToDouble((x.m * Pow(2, x.e)) * (y.m * Pow(2, y.e)))

\* The integer part of a double (the value static_cast<integer> keeps).
Trunc(x) ==
    IF x.e >= 0 THEN x.m * Pow(2, x.e)
    ELSE Sgn(x.m) * (Abs(x.m) \div Pow(2, -x.e))

\* std::pow(static_cast<int32_t>(Rad), k), k >= 0: a double.
StdPow(rad, k) == ToDouble(Pow(rad, k))

(***************************************************************************)
(* namespace detail.  `type` is the template parameter T: "int", "int32_t" *)
(* or "int64_t" (val is an integer) or "double" (val is a double).         *)
(* An operator that ends in a double -> integer conversion yields the SET  *)
(* of values the conversion can produce: the truncated value when it fits  *)
(* T; otherwise the conversion is undefined, and the value is whatever the *)
(* target's convert instruction leaves (the most negative integer, or the  *)
(* bound nearest the operand).                                             *)
(***************************************************************************)
IsIntegral(type) == type # "double"

\* The usual arithmetic conversion of val to double in "val / std::pow(..)".
AsDouble(type, val) == IF IsIntegral(type) THEN ToDouble(val) ELSE val

\* static_cast<T>(d) of a double d.
StaticCast(type, d) ==
    IF ~IsIntegral(type) THEN {d}
    ELSE IF InRep(type, Trunc(d)) THEN {Trunc(d)}
    ELSE {Min(type), IF d.m < 0 THEN Min(type) ELSE Max(type)}

negate(scale) == -scale

right_shift(type, rd, val, scale) == DoubleDiv(AsDouble(type, val), StdPow(rd, scale))

left_shift(type, rd, val, scale) == DoubleMul(AsDouble(type, val), StdPow(rd, negate(scale)))

\* Which branch of shift the scale selects.
ShiftBranch(scale) ==
    IF scale = 0 THEN "identity"
    ELSE IF scale > 0 THEN "right_shift"
    ELSE "left_shift"

\* The integer part of what the selected branch computes, before static_cast<T>.
ShiftRaw(type, rd, val, scale) ==
    IF scale = 0 THEN val
    ELSE IF scale > 0 THEN Trunc(right_shift(type, rd, val, scale))
    ELSE Trunc(left_shift(type, rd, val, scale))

shift(type, rd, val, scale) ==
    IF scale = 0 THEN {val}
    ELSE IF scale > 0 THEN StaticCast(type, right_shift(type, rd, val, scale))
    ELSE StaticCast(type, left_shift(type, rd, val, scale))

\* fixed_point(scaled_integer<Rep>): installs the pair as it is.
scaled_integer(v, s) == [value |-> v, scale |-> s]

\* fixed_point(T const& value, scale_type const& scale); static_cast<Rep> of the
\* shifted T keeps the value (T is int or Rep, never wider than Rep).
fixed_point(type, rp, rd, value, scale) ==
    {[value |-> Wrap(rp, v), scale |-> scale] : v \in shift(type, rd, value, scale)}

\* explicit operator U() const, U an integer type.
to_numeric(type, rd, x) == shift(type, rd, x.value, negate(x.scale))

\* get() as it would be had the conversion not negated the scale (C5 must
\* tell the two apart).
get_unnegated(rd, x) == shift("double", rd, ToDouble(x.value), x.scale)

\* get(): static_cast<double>(*this).
get(rd, x) == shift("double", rd, ToDouble(x.value), negate(x.scale))

(***************************************************************************)
(* The overflow predicates.  MAX - rhs and the like are evaluated in Rep;  *)
(* the *_operands operators give the exact value of each such expression.  *)
(***************************************************************************)
addition_operands(type, l, r) == IF r > 0 THEN {Max(type) - r} ELSE {Min(type) - r}

\* addition_overflow with the sign of rhs slipped in its second arm (C3 must
\* tell the two apart).
addition_overflow_slip(type, l, r) ==
    IF r > 0 THEN l > Wrap(type, Max(type) - r)
    ELSE l < Wrap(type, Min(type) + r)

addition_overflow(type, l, r) ==
    IF r > 0 THEN l > Wrap(type, Max(type) - r)
    ELSE l < Wrap(type, Min(type) - r)

subtraction_operands(type, l, r) == IF r > 0 THEN {Min(type) + r} ELSE {Max(type) + r}

subtraction_overflow(type, l, r) ==
    IF r > 0 THEN l < Wrap(type, Min(type) + r)
    ELSE l > Wrap(type, Max(type) + r)

division_overflow(type, l, r) == l = Min(type) /\ r = -1

\* multiplication_overflow with min / rhs rounded down instead of toward zero
\* (C4 must tell the two apart).
multiplication_overflow_floor(type, l, r) ==
    IF r > 0 THEN l > Max(type) \div r \/ l < Min(type) \div r
    ELSE IF r < -1 THEN l > TruncDiv(Min(type), r) \/ l < TruncDiv(Max(type), r)
    ELSE r = -1 /\ l = Min(type)

multiplication_overflow(type, l, r) ==
    IF r > 0 THEN l > TruncDiv(Max(type), r) \/ l < TruncDiv(Min(type), r)
    ELSE IF r < -1 THEN l > TruncDiv(Min(type), r) \/ l < TruncDiv(Max(type), r)
    ELSE r = -1 /\ l = Min(type)

(***************************************************************************)
(* The binary operators.  Each yields the set of its outcomes: a returned  *)
(* fixed_point, a failed assertion (debug build), or, where the arithmetic *)
(* on Rep is undefined (signed overflow, MIN / -1, x / 0), what a build    *)
(* does with it: the wrapped value returned, or a trap.  An outcome also   *)
(* carries the operator's locals: lhsv and rhsv, and the calls of          *)
(* detail::shift it made.                                                  *)
(***************************************************************************)
Result(op, kind, value, scale, a, b, calls) ==
    [op |-> op, kind |-> kind, value |-> value, scale |-> scale,
     lhsv |-> a, rhsv |-> b, calls |-> calls, mid |-> {}]

\* One call detail::shift<Rad>(val, scale_type{scale}): its branch, arguments
\* and result.
ShiftCall(type, rd, val, scale) ==
    {[fn |-> ShiftBranch(scale), val |-> val, scale |-> scale,
      raw |-> ShiftRaw(type, rd, val, scale), ret |-> v] :
        v \in shift(type, rd, val, scale)}

\* The other arm of the conditional: the operand's value as it is.
NoCall(val) == [fn |-> "none", val |-> val, scale |-> 0, raw |-> val, ret |-> val]

\* The alignment with each scale difference taken the other way round (C10
\* must tell the two apart).
AlignSwapped(type, rd, l, r) ==
    {[lhsv |-> cl.ret, rhsv |-> cr.ret,
      scale |-> IF l.scale > r.scale THEN l.scale ELSE r.scale,
      calls |-> {c \in {cl, cr} : c.fn # "none"}] :
        cr \in (IF l.scale > r.scale
                THEN ShiftCall(type, rd, r.value, r.scale - l.scale)
                ELSE {NoCall(r.value)}),
        cl \in (IF l.scale < r.scale
                THEN ShiftCall(type, rd, l.value, l.scale - r.scale)
                ELSE {NoCall(l.value)})}

\* The alignment of operator+, operator- and operator==: rhsv, lhsv, scale.
Align(type, rd, l, r) ==
    {[lhsv |-> cl.ret, rhsv |-> cr.ret,
      scale |-> IF l.scale > r.scale THEN l.scale ELSE r.scale,
      calls |-> {c \in {cl, cr} : c.fn # "none"}] :
        cr \in (IF l.scale > r.scale
                THEN ShiftCall(type, rd, r.value, l.scale - r.scale)
                ELSE {NoCall(r.value)}),
        cl \in (IF l.scale < r.scale
                THEN ShiftCall(type, rd, l.value, r.scale - l.scale)
                ELSE {NoCall(l.value)})}

\* assert(!overflow) under __CUDACC_DEBUG__, then the arithmetic on Rep and
\* the scaled_integer constructor.
Arith(op, type, bld, overflow, exact, scale, a, b, calls) ==
    IF bld = "debug" /\ overflow
    THEN {Result(op, "assert", 0, 0, a, b, calls)}
    ELSE IF InRep(type, exact)
    THEN {Result(op, "fixed_point", exact, scale, a, b, calls)}
    ELSE {Result(op, "fixed_point", Wrap(type, exact), scale, a, b, calls),
          Result(op, "trap", 0, 0, a, b, calls)}

operator_plus(type, rd, bld, l, r) ==
    UNION {Arith("+", type, bld, addition_overflow(type, al.lhsv, al.rhsv),
                 al.lhsv + al.rhsv, al.scale, al.lhsv, al.rhsv, al.calls) :
              al \in Align(type, rd, l, r)}

operator_minus(type, rd, bld, l, r) ==
    UNION {Arith("-", type, bld, subtraction_overflow(type, al.lhsv, al.rhsv),
                 al.lhsv - al.rhsv, al.scale, al.lhsv, al.rhsv, al.calls) :
              al \in Align(type, rd, l, r)}

operator_multiplies(type, bld, l, r) ==
    Arith("*", type, bld, multiplication_overflow(type, l.value, r.value),
          l.value * r.value, l.scale + r.scale, l.value, r.value, {})

\* operator/ with the scales added, as operator* does (C7 must tell the two
\* apart).
operator_divides_addscale(type, bld, l, r) ==
    IF r.value = 0
    THEN {Result("/", "fixed_point", 0, l.scale + r.scale, l.value, r.value, {}),
          Result("/", "trap", 0, 0, l.value, r.value, {})}
    ELSE Arith("/", type, bld, division_overflow(type, l.value, r.value),
               TruncDiv(l.value, r.value), l.scale + r.scale, l.value, r.value, {})

\* lhs._value / 0 is undefined: a trap, or the 0 a non-trapping divide leaves.
operator_divides(type, bld, l, r) ==
    IF r.value = 0
    THEN {Result("/", "fixed_point", 0, l.scale - r.scale, l.value, r.value, {}),
          Result("/", "trap", 0, 0, l.value, r.value, {})}
    ELSE Arith("/", type, bld, division_overflow(type, l.value, r.value),
               TruncDiv(l.value, r.value), l.scale - r.scale, l.value, r.value, {})

operator_equal(type, rd, l, r) ==
    {Result("==", "bool", al.rhsv = al.lhsv, 0, al.lhsv, al.rhsv, al.calls) :
        al \in Align(type, rd, l, r)}

\* operator++ adding the representation value 1 at the object's scale, the 1
\* installed unshifted (C2 must tell the two apart).
operator_increment_unshifted(type, rd, bld, x) ==
    {[o EXCEPT !.op = "++"] :
        o \in operator_plus(type, rd, bld, x, scaled_integer(1, x.scale))}

\* operator++: *this = *this + fixed_point<Rep, Rad>{1, scale_type{_scale}};
\* the literal 1 is an int.
operator_increment(type, rd, bld, x) ==
    UNION {{[o EXCEPT !.op = "++"] : o \in operator_plus(type, rd, bld, x, one)} :
              one \in fixed_point("int", type, rd, 1, x.scale)}

(***************************************************************************)
(* State.  rep, rad and build are the instantiation (Rep, Rad) and the     *)
(* configuration (__CUDACC_DEBUG__ defined or not); lhs and rhs are two    *)
(* fixed_point objects; arg is the (value, scale) the constructor from a   *)
(* scalar is called with; out is what the last operation gave.             *)
(***************************************************************************)
VARIABLES rep, rad, build, lhs, rhs, arg, pc, out

vars == <<rep, rad, build, lhs, rhs, arg, pc, out>>

NoOut == Result("none", "none", 0, 0, 0, 0, {})

\* Representation values the operands take: the limits of Rep, values around
\* zero, and values beyond 2^DoubleDigits where Rep is wider than double.
OperandValues(type) ==
    {v \in {Min(type), Min(type) + 1, -(Max(type) - 48), -12, -1, 0, 1, 12,
            (Max(type) \div 2) + 1, Max(type) - 48, Max(type)} : InRep(type, v)}

Operands(type) == {scaled_integer(v, s) : v \in OperandValues(type), s \in Scales}

\* Two operands, each installed by fixed_point(scaled_integer<Rep>).
Init ==
    /\ rep \in Reps
    /\ rad \in Radixes
    /\ build \in Builds
    /\ lhs \in Operands(rep)
    /\ rhs \in Operands(rep)
    /\ arg = scaled_integer(0, 0)
    /\ pc = "start"
    /\ out = NoOut

Return(o) ==
    /\ out' = o
    /\ pc' = "done"
    /\ UNCHANGED <<rep, rad, build, rhs, arg>>

Plus ==
    /\ pc = "start"
    /\ \E o \in operator_plus(rep, rad, build, lhs, rhs) : Return(o)
    /\ UNCHANGED lhs

Minus ==
    /\ pc = "start"
    /\ \E o \in operator_minus(rep, rad, build, lhs, rhs) : Return(o)
    /\ UNCHANGED lhs

Multiplies ==
    /\ pc = "start"
    /\ \E o \in operator_multiplies(rep, build, lhs, rhs) : Return(o)
    /\ UNCHANGED lhs

Divides ==
    /\ pc = "start"
    /\ \E o \in operator_divides(rep, build, lhs, rhs) : Return(o)
    /\ UNCHANGED lhs

Equal ==
    /\ pc = "start"
    /\ \E o \in operator_equal(rep, rad, lhs, rhs) : Return(o)
    /\ UNCHANGED lhs

\* ++lhs: the sum is assigned to *this when operator+ returns.
Increment ==
    /\ pc = "start"
    /\ \E o \in operator_increment(rep, rad, build, lhs) :
          /\ Return(o)
          /\ lhs' = IF o.kind = "fixed_point" THEN scaled_integer(o.value, o.scale) ELSE lhs

Next == Plus \/ Minus \/ Multiplies \/ Divides \/ Equal \/ Increment

Spec == Init /\ [][Next]_vars

(***************************************************************************)
(* Construction from a scalar and conversion out: fixed_point<Rep, Rad>    *)
(* x{v, scale_type{s}} with v of type Rep, then static_cast<Rep>(x) or     *)
(* x.get().                                                                *)
(***************************************************************************)
\* The scalars the constructor is given: every value of the narrow Rep; of the
\* wide one, the values around zero, a spread of others and the limits.
ScalarValues(type) ==
    {v \in Min(type) .. Max(type) :
        \/ Abs(v) <= 40
        \/ v % 37 = 0
        \/ v \in {Min(type), Min(type) + 1, Max(type) - 1, Max(type)}
        \/ Abs(v) = Max(type) - 48}

InitCtor ==
    /\ rep \in Reps
    /\ rad \in Radixes
    /\ build = "release"
    /\ lhs = scaled_integer(0, 0)
    /\ rhs = scaled_integer(0, 0)
    /\ arg \in {scaled_integer(v, s) : v \in ScalarValues(rep), s \in Scales}
    /\ pc = "start"
    /\ out = NoOut

Construct ==
    /\ pc = "start"
    /\ lhs' \in fixed_point(rep, rep, rad, arg.value, arg.scale)
    /\ pc' = "constructed"
    /\ UNCHANGED <<rep, rad, build, rhs, arg, out>>

ToNumeric ==
    /\ pc = "constructed"
    /\ \E v \in to_numeric(rep, rad, lhs) :
          Return(Result("to_numeric", "number", v, 0, 0, 0, {}))
    /\ UNCHANGED lhs

Get ==
    /\ pc = "constructed"
    /\ \E d \in get(rad, lhs) : Return(Result("get", "double", d, 0, 0, 0, {}))
    /\ UNCHANGED lhs

NextCtor == Construct \/ ToNumeric \/ Get

SpecCtor == InitCtor /\ [][NextCtor]_vars

(***************************************************************************)
(* The overflow predicates on their own, called as the operators call them *)
(* in the debug build: with two values of Rep.                             *)
(***************************************************************************)
\* Every value of the narrow Rep; of the wide one, the values around zero, the
\* limits, and the quotients of the limits by the small values.
PredicateValues(type) ==
    IF type = "int32_t" THEN Min(type) .. Max(type)
    ELSE {v \in (-6 .. 6) \cup (Min(type) .. (Min(type) + 3))
                \cup ((Max(type) - 3) .. Max(type))
                \cup {TruncDiv(m, k) + d : m \in {Min(type), Max(type)},
                                           k \in (-6 .. 6) \ {0}, d \in {-1, 0, 1}} :
             InRep(type, v)}

InitOverflow ==
    /\ rep \in Reps
    /\ rad = BASE_10
    /\ build = "debug"
    /\ lhs \in {scaled_integer(v, 0) : v \in PredicateValues(rep)}
    /\ rhs \in {scaled_integer(v, 0) : v \in PredicateValues(rep)}
    /\ arg = scaled_integer(0, 0)
    /\ pc = "start"
    /\ out = NoOut

PredicateResult(name, value, mid) ==
    [Result(name, "bool", value, 0, lhs.value, rhs.value, {}) EXCEPT !.mid = mid]

AdditionOverflow ==
    /\ pc = "start"
    /\ Return(PredicateResult("addition_overflow",
                              addition_overflow(rep, lhs.value, rhs.value),
                              addition_operands(rep, lhs.value, rhs.value)))
    /\ UNCHANGED lhs

SubtractionOverflow ==
    /\ pc = "start"
    /\ Return(PredicateResult("subtraction_overflow",
                              subtraction_overflow(rep, lhs.value, rhs.value),
                              subtraction_operands(rep, lhs.value, rhs.value)))
    /\ UNCHANGED lhs

DivisionOverflow ==
    /\ pc = "start"
    /\ Return(PredicateResult("division_overflow",
                              division_overflow(rep, lhs.value, rhs.value), {}))
    /\ UNCHANGED lhs

MultiplicationOverflow ==
    /\ pc = "start"
    /\ Return(PredicateResult("multiplication_overflow",
                              multiplication_overflow(rep, lhs.value, rhs.value), {}))
    /\ UNCHANGED lhs

NextOverflow ==
    AdditionOverflow \/ SubtractionOverflow \/ DivisionOverflow \/ MultiplicationOverflow

SpecOverflow == InitOverflow /\ [][NextOverflow]_vars
(***************************************************************************)
(* The claims.  Exact(..) and the like state what a claim says in          *)
(* unbounded integers, with C++'s truncating division.                     *)
(***************************************************************************)
MaxOf(a, b) == IF a > b THEN a ELSE b

\* The value of operand x aligned to scale s as the claims state it: divided
\* by R^(s - x.scale), truncating toward zero, when x.scale < s.
Aligned(x, s) == IF x.scale < s THEN TruncDiv(x.value, Pow(rad, s - x.scale)) ELSE x.value

ClaimedScale == MaxOf(lhs.scale, rhs.scale)
ClaimedSum == Aligned(lhs, ClaimedScale) + Aligned(rhs, ClaimedScale)
ClaimedDifference == Aligned(lhs, ClaimedScale) - Aligned(rhs, ClaimedScale)

\* C1 (as claimed; refuted for Rep = int64_t): whenever the sum (difference)
\* of the operands aligned by truncating division fits Rep, operator+
\* (operator-) returns that sum (difference) at scale max(a_s, b_s).
C1_AddSubAlignByTruncation ==
    /\ (pc = "done" /\ out.op = "+" /\ InRep(rep, ClaimedSum))
          => (out.kind = "fixed_point" /\ out.scale = ClaimedScale /\ out.value = ClaimedSum)
    /\ (pc = "done" /\ out.op = "-" /\ InRep(rep, ClaimedDifference))
          => (out.kind = "fixed_point" /\ out.scale = ClaimedScale
              /\ out.value = ClaimedDifference)
\* What the constructor makes of the literal 1 at scale s: 1 * R^(-s) when
\* s < 0, 1 / R^s = 0 when s > 0.
ShiftedOne(s) == IF s = 0 THEN 1 ELSE IF s > 0 THEN 0 ELSE Pow(rad, -s)

C3_AddSubOverflowExact ==
    /\ (pc = "done" /\ out.op = "addition_overflow")
          => /\ out.value <=> ~InRep(rep, lhs.value + rhs.value)
             /\ \A x \in out.mid : InRep(rep, x)
    /\ (pc = "done" /\ out.op = "subtraction_overflow")
          => /\ out.value <=> ~InRep(rep, lhs.value - rhs.value)
             /\ \A x \in out.mid : InRep(rep, x)

\* subtraction_overflow true on a negative right operand, its MAX + r in range.
C3_Witness ==
    /\ pc = "done" /\ out.op = "subtraction_overflow"
    /\ out.value = TRUE
    /\ rhs.value < 0
    /\ out.mid = {Max(rep) + rhs.value}

\* C4: multiplication_overflow(l, r) is true exactly when l * r lies outside
\* [MIN, MAX]; for r # 0, division_overflow(l, r) is true exactly when the
\* truncated quotient l / r does, which is only for l = MIN, r = -1.
C4_MulDivOverflowExact ==
    /\ (pc = "done" /\ out.op = "multiplication_overflow")
          => (out.value <=> ~InRep(rep, lhs.value * rhs.value))
    /\ (pc = "done" /\ out.op = "division_overflow" /\ rhs.value # 0)
          => /\ out.value <=> ~InRep(rep, TruncDiv(lhs.value, rhs.value))
             /\ out.value <=> (lhs.value = Min(rep) /\ rhs.value = -1)

\* multiplication_overflow true in its r < -1 branch, one past the limit.
C4_Witness ==
    /\ pc = "done" /\ out.op = "multiplication_overflow"
    /\ out.value = TRUE
    /\ rhs.value < -1
    /\ lhs.value = TruncDiv(Min(rep), rhs.value) + 1

\* Whether the double d is the rational num / den.
DoubleIs(d, num, den) ==
    IF d.e >= 0 THEN d.m * Pow(2, d.e) * den = num
    ELSE d.m * den = num * Pow(2, -d.e)

TruncatedToScale(v, s) == IF s > 0 THEN v - TruncRem(v, Pow(rad, s)) ELSE v

C6_ConstructAndConvertBack ==
    (arg.scale < 0 => InRep(rep, arg.value * Pow(rad, -arg.scale)))
        => /\ (pc \in {"constructed", "done"})
                => lhs = scaled_integer(
                             IF arg.scale < 0 THEN arg.value * Pow(rad, -arg.scale)
                             ELSE IF arg.scale = 0 THEN arg.value
                             ELSE TruncDiv(arg.value, Pow(rad, arg.scale)),
                             arg.scale)
           /\ (pc = "done" /\ out.op = "to_numeric")
                => out.value = TruncatedToScale(arg.value, arg.scale)

\* C7: when the product fits Rep, a * b is (a_v * b_v, a_s + b_s); when
\* b_v # 0 and the quotient fits, a / b is (a_v / b_v truncated toward zero,
\* a_s - b_s); neither aligns its operands.
C7_MulDivNeverAlign ==
    /\ (pc = "done" /\ out.op = "*" /\ InRep(rep, lhs.value * rhs.value))
          => /\ out.kind = "fixed_point"
             /\ out.value = lhs.value * rhs.value
             /\ out.scale = lhs.scale + rhs.scale
             /\ out.calls = {}
    /\ (pc = "done" /\ out.op = "/" /\ rhs.value # 0
        /\ InRep(rep, TruncDiv(lhs.value, rhs.value)))
          => /\ out.kind = "fixed_point"
             /\ out.value = TruncDiv(lhs.value, rhs.value)
             /\ out.scale = lhs.scale - rhs.scale
             /\ out.calls = {}

\* A division of operands of different scales whose quotient was truncated
\* toward zero (not floored).
C7_Witness ==
    /\ pc = "done" /\ out.op = "/" /\ out.kind = "fixed_point"
    /\ lhs.scale < rhs.scale
    /\ lhs.value < 0 /\ rhs.value > 1
    /\ TruncRem(lhs.value, rhs.value) # 0
    /\ out.value = TruncDiv(lhs.value, rhs.value)
    /\ out.scale = lhs.scale - rhs.scale

\* C8 (as claimed; refuted for Rep = int64_t): operator== is true exactly when
\* the lower-scale operand's value divided by R^|a_s - b_s|, truncating
\* toward zero, equals the other operand's value.
C8_EqualIffTruncatedValuesEqual ==
    (pc = "done" /\ out.op = "==")
        => (out.value <=> (Aligned(lhs, ClaimedScale) = Aligned(rhs, ClaimedScale)))

\* The overflow predicate and the exact result of an arithmetic operator.
OverflowOf(op, a, b) ==
    IF op = "+" THEN addition_overflow(rep, a, b)
    ELSE IF op = "-" THEN subtraction_overflow(rep, a, b)
    ELSE IF op = "*" THEN multiplication_overflow(rep, a, b)
    ELSE division_overflow(rep, a, b)

ExactOf(op, a, b) ==
    IF op = "+" THEN a + b
    ELSE IF op = "-" THEN a - b
    ELSE IF op = "*" THEN a * b
    ELSE TruncDiv(a, b)

ScaleOf(op) ==
    IF op = "*" THEN lhs.scale + rhs.scale
    ELSE IF op = "/" THEN lhs.scale - rhs.scale
    ELSE ClaimedScale

\* C9 (as claimed; refuted): for +, -, * and / (nonzero divisor): the debug
\* build fails its assertion exactly when the overflow predicate is true of
\* the aligned values, and what it returns is the exact result; the release
\* build always returns, with the exact result wrapped modulo 2^w and the
\* scale of the non-overflowing case.
C9_DebugAssertsReleaseWraps ==
    (pc = "done" /\ out.op \in {"+", "-", "*", "/"} /\ ~(out.op = "/" /\ out.rhsv = 0))
        => IF build = "debug"
           THEN /\ (out.kind = "assert") <=> OverflowOf(out.op, out.lhsv, out.rhsv)
                /\ (out.kind # "assert")
                      => /\ out.kind = "fixed_point"
                         /\ out.value = ExactOf(out.op, out.lhsv, out.rhsv)
           ELSE /\ out.kind = "fixed_point"
                /\ out.value = Wrap(rep, ExactOf(out.op, out.lhsv, out.rhsv))
                /\ out.scale = ScaleOf(out.op)

\* C10: the alignment of operator+, operator- and operator== calls
\* detail::shift once when the scales differ and not at all when they are
\* equal, always with a scale > 0, so always right_shift; the aligned value is
\* no larger in magnitude than the operand's, is zero or of its sign, and the
\* shift's result fits Rep.
C10_AlignmentOnlyRightShifts ==
    (pc = "done" /\ out.op \in {"+", "-", "=="})
        => /\ Cardinality(out.calls) = IF lhs.scale = rhs.scale THEN 0 ELSE 1
           /\ \A c \in out.calls :
                 /\ c.fn = "right_shift"
                 /\ c.scale > 0
                 /\ c.scale = Abs(lhs.scale - rhs.scale)
                 /\ InRep(rep, c.raw)
                 /\ c.ret = c.raw
                 /\ Abs(c.ret) <= Abs(c.val)
                 /\ (c.ret = 0 \/ Sgn(c.ret) = Sgn(c.val))

\* An operator== whose alignment right-shifted a negative value by more than
\* one digit and left it negative.
C10_Witness ==
    /\ pc = "done" /\ out.op = "=="
    /\ \E c \in out.calls :
          c.fn = "right_shift" /\ c.scale > 1 /\ c.val < 0 /\ c.ret < 0
====
